---------------------------- MODULE Spec2Model ----------------------------
(***************************************************************************)
(* A model of ast-match (src/ast_match): compile / repl / fullmatch /      *)
(* finditer / sub / expand over Python ast trees.                          *)
(*                                                                         *)
(* Trees live in a heap of objects, because the code's behaviour depends   *)
(* on object identity (merge_matching compares ast nodes with !=, which    *)
(* for ast.AST is identity) and on in-place mutation (setattr in sub,      *)
(* scan_node_to_pattern and pattern_replace_mutable).  A reference is an   *)
(* index into the heap.  Python lists are held by value inside the field   *)
(* that owns them: the library mutates a list only inside the private      *)
(* deep copy that compile/repl make, where no second reference exists.     *)
(*                                                                         *)
(* A Python str (an identifier, a constant's text) is a sequence of        *)
(* one-character strings, so that startswith and slicing are computed.     *)
(* The ctx / op / keywords fields of the Python node classes are left out: *)
(* they never hold a placeholder and match by type alone.                  *)
(***************************************************************************)
EXTENDS Naturals, Sequences, FiniteSets, TLC

VARIABLES
    heap,     \* Seq(Object): every ast node / Blank object allocated so far
    inp,      \* the caller's inputs as source terms: [ex, rp, tg]
    caller,   \* the caller's parsed trees: [example, replacement, text] (refs)
    pat,      \* the compiled Pattern: [st, root, snap]
    rep,      \* the Repl: [st, root, snap]
    held,     \* the Match objects the caller holds (from fullmatch / finditer)
    gen,      \* the finditer generator the caller holds
    last,     \* the last compile / repl / fullmatch / sub / expand call and its result
    ops       \* the sub / expand calls made so far: [op, st, m] each

vars == <<heap, inp, caller, pat, rep, held, gen, last, ops>>

-----------------------------------------------------------------------------
(* Bounds *)

\* sub / expand calls per session
MaxOps == 2

\* finditer generators started per session
MaxGens == 1

-----------------------------------------------------------------------------
(* Tree model: field values, objects, the heap *)

LeafV(str) == [k |-> "leaf", s |-> str, ref |-> 0, list |-> <<>>]
NodeV(r) == [k |-> "node", s |-> <<>>, ref |-> r, list |-> <<>>]
ListV(l) == [k |-> "list", s |-> <<>>, ref |-> 0, list |-> l]

Obj(tag, fields) == [tag |-> tag, fields |-> fields]

\* ast.iter_fields(node): the declared fields of the node's class, in order
NumFields(h, n) == Len(h[n].fields)

getattr(h, n, i) == h[n].fields[i]

setattr(h, n, i, v) == [h EXCEPT ![n].fields[i] = v]

\* type(x) of a field value: the node's class, list, or the leaf's type
TypeOf(h, v) == IF v.k = "node" THEN h[v.ref].tag ELSE v.k

IsBlank(h, v) == v.k = "node" /\ h[v.ref].tag = "Blank"

IsBlankNullSequence(h, v) == v.k = "node" /\ h[v.ref].tag = "BlankNullSequence"

\* Blank.var / BlankNullSequence.var
VarOf(h, v) == h[v.ref].fields[1].s

-----------------------------------------------------------------------------
(* Source terms and the parser.  A term is [tag, s, kids]:                 *)
(*   Name(id=s)  Constant(value=s)  BinOp(left, right)  Expr(value)        *)
(*   Call(func, args...)  Module(body...)                                  *)

Term(tag, s, kids) == [tag |-> tag, s |-> s, kids |-> kids]
Name(s) == Term("Name", s, <<>>)
Constant(s) == Term("Constant", s, <<>>)
BinOp(l, r) == Term("BinOp", <<>>, <<l, r>>)
Expr(v) == Term("Expr", <<>>, <<v>>)
Call(f, args) == Term("Call", <<>>, <<f>> \o args)
Module(body) == Term("Module", <<>>, body)

RECURSIVE parse(_, _), parse_list(_, _, _)

\* ast.parse: allocate the term's nodes; the result is [h, ref]
parse(t, h) ==
    IF t.tag \in {"Name", "Constant"}
    THEN [h |-> Append(h, Obj(t.tag, <<LeafV(t.s)>>)), ref |-> Len(h) + 1]
    ELSE LET ks == parse_list(t.kids, <<>>, h)
             fs == CASE t.tag = "BinOp" -> <<NodeV(ks.refs[1]), NodeV(ks.refs[2])>>
                     [] t.tag = "Expr" -> <<NodeV(ks.refs[1])>>
                     [] t.tag = "Call" -> <<NodeV(ks.refs[1]), ListV(Tail(ks.refs))>>
                     [] OTHER -> <<ListV(ks.refs)>>
         IN [h |-> Append(ks.h, Obj(t.tag, fs)), ref |-> Len(ks.h) + 1]

parse_list(ts, refs, h) ==
    IF ts = <<>>
    THEN [h |-> h, refs |-> refs]
    ELSE LET r == parse(Head(ts), h)
         IN parse_list(Tail(ts), Append(refs, r.ref), r.h)

RECURSIVE unparse(_, _), unparse_list(_, _)

\* ast.unparse / ast.dump: the tree below ref read back as a term
unparse(h, n) ==
    LET o == h[n]
        leaves == [i \in 1..Len(o.fields) |-> o.fields[i].s]
        RECURSIVE cat(_)
        cat(i) == IF i > Len(o.fields) THEN <<>> ELSE leaves[i] \o cat(i + 1)
        RECURSIVE kids(_)
        kids(i) ==
            IF i > Len(o.fields) THEN <<>>
            ELSE (CASE o.fields[i].k = "node" -> <<unparse(h, o.fields[i].ref)>>
                    [] o.fields[i].k = "list" -> unparse_list(h, o.fields[i].list)
                    [] OTHER -> <<>>) \o kids(i + 1)
    IN Term(o.tag, cat(1), kids(1))

unparse_list(h, l) ==
    IF l = <<>> THEN <<>> ELSE <<unparse(h, Head(l))>> \o unparse_list(h, Tail(l))

-----------------------------------------------------------------------------
(* copy.deepcopy *)

RECURSIVE deepcopy_node(_, _, _), deepcopy_fields(_, _, _, _, _), deepcopy_list(_, _, _, _)

\* deepcopy of the object n with memo: [h, memo, ref]
deepcopy_node(n, h, memo) ==
    IF n \in DOMAIN memo
    THEN [h |-> h, memo |-> memo, ref |-> memo[n]]
    ELSE LET y == Len(h) + 1
             r == deepcopy_fields(n, y, 1, Append(h, h[n]), (n :> y) @@ memo)
         IN [h |-> r.h, memo |-> r.memo, ref |-> y]

deepcopy_fields(n, y, i, h, memo) ==
    IF i > NumFields(h, n)
    THEN [h |-> h, memo |-> memo]
    ELSE LET v == getattr(h, n, i)
         IN IF v.k = "node"
            THEN LET r == deepcopy_node(v.ref, h, memo)
                 IN deepcopy_fields(n, y, i + 1, setattr(r.h, y, i, NodeV(r.ref)), r.memo)
            ELSE IF v.k = "list"
            THEN LET r == deepcopy_list(v.list, <<>>, h, memo)
                 IN deepcopy_fields(n, y, i + 1, setattr(r.h, y, i, ListV(r.refs)), r.memo)
            ELSE deepcopy_fields(n, y, i + 1, h, memo)

deepcopy_list(l, refs, h, memo) ==
    IF l = <<>>
    THEN [h |-> h, memo |-> memo, refs |-> refs]
    ELSE LET r == deepcopy_node(Head(l), h, memo)
         IN deepcopy_list(Tail(l), Append(refs, r.ref), r.h, r.memo)

deepcopy(n, h) == deepcopy_node(n, h, <<>>)

-----------------------------------------------------------------------------
(* pattern.py: placeholders and the pattern compiler *)

startswith(s, p) == Len(s) >= Len(p) /\ SubSeq(s, 1, Len(p)) = p

\* s[i:] for a 0-based Python index i
slice_from(s, i) == SubSeq(s, i + 1, Len(s))

NoneRet(h) == [h |-> h, some |-> FALSE, ref |-> 0]

\* Fault variant of name_to_blank_or_verbatim_mut: the test for the "__"
\* prefix is lost, so every placeholder name becomes a Blank.
name_to_blank_only(node, h) ==
    IF h[node].tag # "Name" THEN NoneRet(h)
    ELSE LET s == getattr(h, node, 1).s
         IN IF startswith(s, <<"_">>)
            THEN IF startswith(s, <<"_", "v", "_">>)
                 THEN [h |-> setattr(h, node, 1, LeafV(slice_from(s, 2))),
                       some |-> TRUE, ref |-> node]
                 ELSE [h |-> Append(h, Obj("Blank", <<LeafV(slice_from(s, 1))>>)),
                       some |-> TRUE, ref |-> Len(h) + 1]
            ELSE NoneRet(h)

\* Returns [h, some, ref]: some = FALSE is Python's None; otherwise ref is a
\* new Blank / BlankNullSequence object, or the node itself with its id
\* rewritten (verbatim).
name_to_blank_or_verbatim_mut(node, h) ==
    IF h[node].tag # "Name" THEN NoneRet(h)
    ELSE LET s == getattr(h, node, 1).s
         IN IF startswith(s, <<"_">>)
            THEN IF startswith(s, <<"_", "_">>)
                 THEN [h |-> Append(h, Obj("BlankNullSequence", <<LeafV(slice_from(s, 2))>>)),
                       some |-> TRUE, ref |-> Len(h) + 1]
                 ELSE IF startswith(s, <<"_", "v", "_">>)
                 THEN [h |-> setattr(h, node, 1, LeafV(slice_from(s, 2))),
                       some |-> TRUE, ref |-> node]
                 ELSE [h |-> Append(h, Obj("Blank", <<LeafV(slice_from(s, 1))>>)),
                       some |-> TRUE, ref |-> Len(h) + 1]
            ELSE NoneRet(h)

node_to_blank_or_verbatim_mut(node, h) ==
    LET tmp == name_to_blank_or_verbatim_mut(node, h)
    IN IF tmp.some THEN tmp
       ELSE IF h[node].tag = "Expr" /\ getattr(h, node, 1).k = "node"
       THEN LET tmp2 == name_to_blank_or_verbatim_mut(getattr(h, node, 1).ref, h)
            IN IF ~tmp2.some THEN NoneRet(h)
               ELSE IF tmp2.h[tmp2.ref].tag \in {"Blank", "BlankNullSequence"}
               THEN tmp2
               ELSE [h |-> setattr(tmp2.h, node, 1, NodeV(tmp2.ref)),
                     some |-> TRUE, ref |-> node]
       ELSE NoneRet(h)

\* Fault variant of AnyBlankNullSequence: only the first element is looked at.
FirstIsBlankNullSequence(h, l) == l # <<>> /\ h[l[1]].tag = "BlankNullSequence"

\* any(isinstance(x, BlankNullSequence) for x in child)
AnyBlankNullSequence(h, l) == \E j \in 1..Len(l) : h[l[j]].tag = "BlankNullSequence"

RECURSIVE scan_node_to_pattern(_, _), scan_fields(_, _, _), scan_list(_, _, _, _)

\* Returns [h, st]: st is "ok" or the exception raised.
scan_node_to_pattern(node, h) == scan_fields(node, 1, h)

\* for i, x in enumerate(child): the elements of the list in field i, from j on
scan_list(node, i, j, h) ==
    LET child == getattr(h, node, i).list
        Scanned(r) == IF r.st # "ok" THEN r ELSE scan_list(node, i, j + 1, r.h)
        Converted(tmp) ==
            IF tmp.some
            THEN scan_list(node, i, j + 1,
                           setattr(tmp.h, node, i, ListV([child EXCEPT ![j] = tmp.ref])))
            ELSE Scanned(scan_node_to_pattern(child[j], h))
    IN IF j > Len(child) THEN [h |-> h, st |-> "ok"]
       ELSE Converted(node_to_blank_or_verbatim_mut(child[j], h))

\* for field_name, child in ast.iter_fields(node): the fields from i on
scan_fields(node, i, h) ==
    LET child == getattr(h, node, i)
        \* after the loop over the list: r is [h, st], l the list as it is now
        Collapse(r, l) ==
            IF Len(l) = 1 /\ r.h[l[1]].tag = "BlankNullSequence"
            THEN scan_fields(node, i + 1, setattr(r.h, node, i, NodeV(l[1])))
            ELSE IF AnyBlankNullSequence(r.h, l)
            THEN [h |-> r.h, st |-> "NotImplementedError"]
            ELSE scan_fields(node, i + 1, r.h)
        Listed(r) == IF r.st # "ok" THEN r ELSE Collapse(r, getattr(r.h, node, i).list)
        Scanned(r) == IF r.st # "ok" THEN r ELSE scan_fields(node, i + 1, r.h)
        Converted(tmp) ==
            IF tmp.some
            THEN scan_fields(node, i + 1, setattr(tmp.h, node, i, NodeV(tmp.ref)))
            ELSE Scanned(scan_node_to_pattern(child.ref, h))
    IN IF i > NumFields(h, node) THEN [h |-> h, st |-> "ok"]
       ELSE IF child.k = "list" THEN Listed(scan_list(node, i, 1, h))
       ELSE IF child.k = "node" THEN Converted(node_to_blank_or_verbatim_mut(child.ref, h))
       ELSE scan_fields(node, i + 1, h)

\* Fault variant of to_pattern_mutable: the root goes through the placeholder
\* classifier like any other node.
to_pattern_classify_root(node, h) ==
    LET Return(r) == [h |-> r.h, st |-> r.st, root |-> node]
        Converted(tmp) ==
            IF tmp.some THEN [h |-> tmp.h, st |-> "ok", root |-> tmp.ref]
            ELSE Return(scan_node_to_pattern(node, h))
    IN Converted(node_to_blank_or_verbatim_mut(node, h))

\* scan_node_to_pattern(node); return node.  Returns [h, st, root].
to_pattern_mutable(node, h) ==
    LET Return(r) == [h |-> r.h, st |-> r.st, root |-> node]
    IN Return(scan_node_to_pattern(node, h))

-----------------------------------------------------------------------------
(* pattern.py: the matcher.  A result is [st, m]: st = "match" with the     *)
(* Matching0 dict m (name -> field value), st = "None", or the exception.  *)

NoMatch == [st |-> "None", m |-> <<>>]
Matched(m) == [st |-> "match", m |-> m]
Raised(e) == [st |-> e, m |-> <<>>]

\* A Matching0 is a Python dict: a sequence of items [key, value] in insertion
\* order, keys distinct.
Item(key, value) == [key |-> key, value |-> value]

Keys(m) == {m[j].key : j \in 1..Len(m)}

Get(m, key) == m[CHOOSE j \in 1..Len(m) : m[j].key = key].value

\* a[key] = value
Put(m, key, value) ==
    IF key \in Keys(m)
    THEN [j \in 1..Len(m) |-> IF m[j].key = key THEN Item(key, value) ELSE m[j]]
    ELSE Append(m, Item(key, value))

RECURSIVE merge_items(_, _, _)

\* for key, value in b.items(): if key in a and a[key] != value: return None
\* (!= is identity for ast nodes, elementwise for lists)
merge_items(a, b, j) ==
    IF j > Len(b) THEN Matched(a)
    ELSE IF b[j].key \in Keys(a) /\ Get(a, b[j].key) # b[j].value THEN NoMatch
    ELSE merge_items(Put(a, b[j].key, b[j].value), b, j + 1)

merge_matching(a, b) ==
    IF a.st # "match" \/ b.st # "match" THEN NoMatch
    ELSE merge_items(a.m, b.m, 1)

RECURSIVE pattern_match(_, _, _), match_items(_, _, _, _, _), match_fields(_, _, _, _, _)

pattern_match(pattern, tree, h) ==
    IF IsBlank(h, pattern)
    THEN IF tree.k = "list" THEN Raised("AssertionError")
         ELSE Matched(<<Item(VarOf(h, pattern), tree)>>)
    ELSE IF IsBlankNullSequence(h, pattern)
    THEN IF tree.k # "list" THEN Raised("AssertionError")
         ELSE Matched(<<Item(VarOf(h, pattern), tree)>>)
    ELSE IF TypeOf(h, pattern) # TypeOf(h, tree) THEN NoMatch
    ELSE IF pattern.k = "list"
    THEN IF Len(pattern.list) # Len(tree.list) THEN NoMatch
         ELSE match_items(pattern.list, tree.list, 1, Matched(<<>>), h)
    ELSE IF pattern.k = "node"
    THEN match_fields(pattern.ref, tree.ref, 1, Matched(<<>>), h)
    ELSE IF pattern.s # tree.s THEN NoMatch ELSE Matched(<<>>)

\* for pattern0, tree0 in zip(pattern, tree)
match_items(ps, ts, j, result, h) ==
    IF j > Len(ps) THEN result
    ELSE LET r == pattern_match(NodeV(ps[j]), NodeV(ts[j]), h)
         IN IF r.st \notin {"match", "None"} THEN r
            ELSE LET merged == merge_matching(result, r)
                 IN IF merged.st = "None" THEN NoMatch
                    ELSE match_items(ps, ts, j + 1, merged, h)

\* for field_name, pattern0 in ast.iter_fields(pattern)
match_fields(p, t, i, result, h) ==
    IF i > NumFields(h, p) THEN result
    ELSE LET r == pattern_match(getattr(h, p, i), getattr(h, t, i), h)
         IN IF r.st \notin {"match", "None"} THEN r
            ELSE LET merged == merge_matching(result, r)
                 IN IF merged.st = "None" THEN NoMatch
                    ELSE match_fields(p, t, i + 1, merged, h)

-----------------------------------------------------------------------------
(* pattern.py: the expander.  A result is [h, st, v]: v the value returned. *)

RECURSIVE pattern_replace_mutable(_, _, _), replace_items(_, _, _, _, _), replace_fields(_, _, _, _)

pattern_replace_mutable(pattern, replacement, h) ==
    IF IsBlank(h, pattern) \/ IsBlankNullSequence(h, pattern)
    THEN IF VarOf(h, pattern) \notin Keys(replacement)
         THEN [h |-> h, st |-> "KeyError", v |-> pattern]
         ELSE LET result == Get(replacement, VarOf(h, pattern))
              IN IF IsBlank(h, pattern) = (result.k = "list")
                 THEN [h |-> h, st |-> "AssertionError", v |-> pattern]
                 ELSE [h |-> h, st |-> "ok", v |-> result]
    ELSE IF pattern.k = "list"
    THEN replace_items(pattern.list, 1, <<>>, replacement, h)
    ELSE IF pattern.k = "node"
    THEN replace_fields(pattern.ref, 1, replacement, h)
    ELSE [h |-> h, st |-> "ok", v |-> pattern]

\* [pattern_replace_mutable(item, replacement) for item in pattern]
\* An item that expands to a list would nest a list in the list; no pattern
\* that scan_node_to_pattern accepts holds such an item ("NestedList").
replace_items(l, j, out, replacement, h) ==
    IF j > Len(l) THEN [h |-> h, st |-> "ok", v |-> ListV(out)]
    ELSE LET r == pattern_replace_mutable(NodeV(l[j]), replacement, h)
         IN IF r.st # "ok" THEN r
            ELSE IF r.v.k # "node" THEN [h |-> r.h, st |-> "NestedList", v |-> r.v]
            ELSE replace_items(l, j + 1, Append(out, r.v.ref), replacement, r.h)

\* for field_name, pattern0 in ast.iter_fields(pattern): setattr(...)
replace_fields(p, i, replacement, h) ==
    IF i > NumFields(h, p) THEN [h |-> h, st |-> "ok", v |-> NodeV(p)]
    ELSE LET r == pattern_replace_mutable(getattr(h, p, i), replacement, h)
         IN IF r.st # "ok" THEN r
            ELSE replace_fields(p, i + 1, replacement, setattr(r.h, p, i, r.v))

-----------------------------------------------------------------------------
(* __init__.py: compile, repl, Match.expand, Pattern.fullmatch *)

\* node = deepcopy(node); Pattern(to_pattern_mutable(node)).  Returns [h, st, root].
compile(node, h) ==
    LET Pattern(c) == to_pattern_mutable(c.ref, c.h)
    IN Pattern(deepcopy(node, h))

\* node = deepcopy(node); Repl(to_pattern_mutable(node))
repl(node, h) ==
    LET Replacement(c) == to_pattern_mutable(c.ref, c.h)
    IN Replacement(deepcopy(node, h))

\* Fault variant of expand: the Repl's own tree is expanded, not a copy.
expand_in_place(matching, o, h) == pattern_replace_mutable(NodeV(o), matching, h)

\* pattern_replace_mutable(deepcopy(o._pattern), self._matching): [h, st, v]
expand(matching, o, h) ==
    LET Expanded(c) == pattern_replace_mutable(NodeV(c.ref), matching, c.h)
    IN Expanded(deepcopy(o, h))

fullmatch(p, text, h) == pattern_match(NodeV(p), NodeV(text), h)

-----------------------------------------------------------------------------
(* __init__.py: Pattern.finditer, a generator.  Its state is the stack of   *)
(* suspended finditer frames: [n, fi, items] is the call on node n, fi the *)
(* next field iter_fields will read (0: fullmatch not tried yet), items     *)
(* the rest of the list the inner for loop is walking.                      *)

Frame(n) == [n |-> n, fi |-> 0, items |-> <<>>]

Top(stack) == stack[Len(stack)]

\* Fault variant of Pop: the end of one frame ends the whole traversal.
PopAll(stack) == <<>>

Pop(stack) == SubSeq(stack, 1, Len(stack) - 1)

SetTop(stack, f) == [stack EXCEPT ![Len(stack)] = f]

\* Fault variant of field_items: list fields are passed over, as sub does.
field_items_no_list(text0) == IF text0.k = "node" THEN <<text0.ref>> ELSE <<>>

\* The nodes the loop over one field value recurses into: every item of a
\* list, the node of a Child field, nothing for a leaf.
field_items(text0) ==
    IF text0.k = "list" THEN text0.list
    ELSE IF text0.k = "node" THEN <<text0.ref>>
    ELSE <<>>

RECURSIVE finditer_next(_, _, _)

\* next(generator): run to the next yield.  Returns [stack, st, m, n] with st
\* "yield", "StopIteration" or the exception raised; a field of the tree is
\* read from the heap as it is when the walk reaches it.
finditer_next(stack, p, h) ==
    IF stack = <<>> THEN [stack |-> <<>>, st |-> "StopIteration", m |-> <<>>, n |-> 0]
    ELSE LET top == Top(stack)
         IN IF top.fi = 0
            THEN LET matching == fullmatch(p, top.n, h)
                     st1 == SetTop(stack, [top EXCEPT !.fi = 1])
                 IN IF matching.st = "match"
                    THEN [stack |-> st1, st |-> "yield", m |-> matching.m, n |-> top.n]
                    ELSE IF matching.st = "None" THEN finditer_next(st1, p, h)
                    ELSE [stack |-> <<>>, st |-> matching.st, m |-> <<>>, n |-> top.n]
            ELSE IF top.items # <<>>
            THEN finditer_next(
                     Append(SetTop(stack, [top EXCEPT !.items = Tail(top.items)]),
                            Frame(Head(top.items))), p, h)
            ELSE IF top.fi > NumFields(h, top.n) THEN finditer_next(Pop(stack), p, h)
            ELSE finditer_next(
                     SetTop(stack, [top EXCEPT !.fi = top.fi + 1,
                                               !.items = field_items(getattr(h, top.n, top.fi))]),
                     p, h)

RECURSIVE finditer(_, _, _), finditer_fields(_, _, _, _), finditer_items(_, _, _)

\* [*pattern.finditer(text)]: the generator run to exhaustion with nothing in
\* between, as the recursion of the code.  Returns [st, ms]: the matches
\* yielded, and "ok" or the exception that ended the run.
finditer(p, text, h) ==
    LET matching == fullmatch(p, text, h)
    IN IF matching.st \notin {"match", "None"} THEN [st |-> matching.st, ms |-> <<>>]
       ELSE LET r == finditer_fields(p, text, 1, h)
            IN [st |-> r.st,
                ms |-> (IF matching.st = "match" THEN <<matching.m>> ELSE <<>>) \o r.ms]

finditer_fields(p, text, i, h) ==
    IF i > NumFields(h, text) THEN [st |-> "ok", ms |-> <<>>]
    ELSE LET r == finditer_items(p, field_items(getattr(h, text, i)), h)
         IN IF r.st # "ok" THEN r
            ELSE LET q == finditer_fields(p, text, i + 1, h)
                 IN [st |-> q.st, ms |-> r.ms \o q.ms]

finditer_items(p, items, h) ==
    IF items = <<>> THEN [st |-> "ok", ms |-> <<>>]
    ELSE LET r == finditer(p, Head(items), h)
         IN IF r.st # "ok" THEN r
            ELSE LET q == finditer_items(p, Tail(items), h)
                 IN [st |-> q.st, ms |-> r.ms \o q.ms]

-----------------------------------------------------------------------------
(* __init__.py: Pattern.sub.  replace is [kind, ref]: kind "ast" (a literal  *)
(* tree, ref its root), "Repl" (ref the Repl's tree) or "callable".         *)

\* The doctest's callback, lambda whole, m: Match(x=whole).expand(repl(expr("f(_x)"))):
\* a new call f(whole) around the matched node.  Returns [h, ref].
callback(whole, matching, h) ==
    LET h1 == Append(h, Obj("Name", <<LeafV(<<"f">>)>>))
    IN [h |-> Append(h1, Obj("Call", <<NodeV(Len(h1)), ListV(<<whole>>)>>)),
        ref |-> Len(h1) + 1]

RECURSIVE sub(_, _, _, _, _), sub_fields(_, _, _, _, _, _)

\* Fault variant of sub: the children of a matching node are rewritten too,
\* before the node is replaced.
sub_descend(replace, p, text, h, calls) ==
    LET matching == fullmatch(p, text, h)
        d == sub_fields(replace, p, text, 1, h, calls)
    IN IF matching.st = "match"
       THEN IF d.st # "ok" THEN d
            ELSE IF replace.kind = "ast"
            THEN [h |-> d.h, st |-> "ok", ref |-> replace.ref, calls |-> d.calls]
            ELSE IF replace.kind = "Repl"
            THEN LET r == expand(matching.m, replace.ref, d.h)
                 IN [h |-> r.h, st |-> r.st, ref |-> r.v.ref, calls |-> d.calls]
            ELSE LET r == callback(text, matching.m, d.h)
                 IN [h |-> r.h, st |-> "ok", ref |-> r.ref,
                     calls |-> Append(d.calls, [n |-> text, m |-> matching.m])]
       ELSE IF matching.st # "None"
       THEN [h |-> h, st |-> matching.st, ref |-> text, calls |-> calls]
       ELSE d

\* Returns [h, st, ref, calls]: the tree returned (or the exception), and the
\* callback's invocations [n, m] in order.
sub(replace, p, text, h, calls) ==
    LET matching == fullmatch(p, text, h)
    IN IF matching.st = "match"
       THEN IF replace.kind = "ast"
            THEN [h |-> h, st |-> "ok", ref |-> replace.ref, calls |-> calls]
            ELSE IF replace.kind = "Repl"
            THEN LET r == expand(matching.m, replace.ref, h)
                 IN [h |-> r.h, st |-> r.st, ref |-> r.v.ref, calls |-> calls]
            ELSE LET r == callback(text, matching.m, h)
                 IN [h |-> r.h, st |-> "ok", ref |-> r.ref,
                     calls |-> Append(calls, [n |-> text, m |-> matching.m])]
       ELSE IF matching.st # "None"
       THEN [h |-> h, st |-> matching.st, ref |-> text, calls |-> calls]
       ELSE sub_fields(replace, p, text, 1, h, calls)

\* for field_name, text0 in ast.iter_fields(text): only ast.AST fields
sub_fields(replace, p, text, i, h, calls) ==
    IF i > NumFields(h, text) THEN [h |-> h, st |-> "ok", ref |-> text, calls |-> calls]
    ELSE LET text0 == getattr(h, text, i)
         IN IF text0.k = "node"
            THEN LET r == sub(replace, p, text0.ref, h, calls)
                 IN IF r.st # "ok" THEN [r EXCEPT !.ref = text]
                    ELSE sub_fields(replace, p, text, i + 1,
                                    setattr(r.h, text, i, NodeV(r.ref)), r.calls)
            ELSE sub_fields(replace, p, text, i + 1, h, calls)

-----------------------------------------------------------------------------
(* The caller's inputs *)

Id(c) == Name(<<c>>)
Num(c) == Constant(<<c>>)
\* _c, __c and _v_c
BlankId(c) == Name(<<"_", c>>)
SeqId(c) == Name(<<"_", "_", c>>)
VerbatimId(c) == Name(<<"_", "v", "_", c>>)

\* Trees given to compile.  CompileExamples is every shape of placeholder use
\* the compiler distinguishes; SearchExamples are the ones searched with.
SearchExamples ==
    { BinOp(BlankId("a"), BlankId("b")),
      Num("1"),
      Call(Id("f"), <<BlankId("a")>>) }

CompileExamples ==
    SearchExamples \cup
    { BinOp(BlankId("a"), BlankId("a")),
      Call(Id("f"), <<SeqId("a")>>),
      BlankId("a"),
      SeqId("a"),
      Call(Id("f"), <<SeqId("a"), Num("1")>>),
      Call(Id("f"), <<Num("1"), BlankId("a"), SeqId("b")>>),
      Call(Id("f"), <<VerbatimId("a")>>),
      BinOp(SeqId("a"), Num("1")),
      BinOp(Call(Id("f"), <<SeqId("a")>>), Call(Id("f"), <<SeqId("a")>>)),
      BinOp(Call(Id("f"), <<SeqId("a"), SeqId("b")>>), Num("1")),
      Module(<<Expr(BlankId("a"))>>),
      Module(<<Expr(SeqId("a"))>>),
      Module(<<Expr(SeqId("a")), Expr(Num("1"))>>) }

\* Trees given to repl
SearchReplacements ==
    { BinOp(BlankId("b"), BlankId("a")),
      Call(Id("f"), <<SeqId("a")>>) }

CompileReplacements ==
    SearchReplacements \cup
    { Call(Id("h"), <<SeqId("a"), Num("0"), SeqId("b")>>) }

\* The literal trees given to sub as replace (the doctest's expr("2"))
Literals == { Num("2") }

\* Trees searched and rewritten
SearchTargets ==
    { BinOp(BinOp(Num("1"), Num("2")), Num("1")),
      BinOp(Call(Id("f"), <<Num("1")>>), Num("1")),
      Call(Id("f"), <<BinOp(Num("1"), Num("2")), Num("1")>>) }

MatchTargets ==
    SearchTargets \cup
    { Id("x"),
      BlankId("a"),
      SeqId("a"),
      Num("1"),
      BinOp(Num("1"), Num("1")),
      BinOp(Num("1"), Num("2")),
      BinOp(Id("x"), Id("x")),
      BinOp(BinOp(Num("1"), Num("2")), BinOp(Num("1"), Num("2"))),
      Call(Id("f"), <<>>),
      Call(Id("f"), <<Num("1")>>),
      Call(Id("f"), <<Num("1"), Num("2")>>),
      Call(Id("g"), <<Num("1")>>),
      Call(Id("f"), <<Call(Id("f"), <<Num("1")>>)>>),
      Call(Id("f"), <<BlankId("a")>>),
      BinOp(Call(Id("f"), <<>>), Call(Id("f"), <<>>)),
      BinOp(Call(Id("f"), <<Num("1")>>), Call(Id("f"), <<Num("1")>>)),
      Module(<<>>),
      Module(<<Expr(Num("1"))>>),
      Module(<<Expr(Num("1")), Expr(Num("2"))>>) }

-----------------------------------------------------------------------------
(* The session: the caller parses three trees, then calls the library *)

\* st, stack: the generator; yields, ynodes: what it has yielded, and at which
\* nodes; root, snap: the tree and the heap when finditer was called;
\* interleaved: sub or expand was called while it was suspended after a yield.
NoGen == [st |-> "none", stack |-> <<>>, yields |-> <<>>, ynodes |-> <<>>,
          root |-> 0, snap |-> <<>>, started |-> 0, interleaved |-> FALSE]

\* the generator after a call made between two pulls
Suspended(g) == [g EXCEPT !.interleaved = @ \/ (g.st = "active" /\ g.yields # <<>>)]

Did(op, kind, st, m, ref, calls, pre, text) ==
    [op |-> op, kind |-> kind, st |-> st, m |-> m, ref |-> ref, calls |-> calls,
     pre |-> pre, text |-> text]

Start(ex, rp, tg) ==
    LET e == parse(ex, <<>>)
        r == parse(rp, e.h)
        t == parse(tg, r.h)
    IN /\ inp = [ex |-> ex, rp |-> rp, tg |-> tg]
       /\ heap = t.h
       /\ caller = [example |-> e.ref, replacement |-> r.ref, text |-> t.ref]
       /\ pat = [st |-> "none", root |-> 0, snap |-> <<>>]
       /\ rep = [st |-> "none", root |-> 0, snap |-> <<>>]
       /\ held = {}
       /\ gen = NoGen
       /\ last = Did("init", "", "ok", <<>>, 0, <<>>, <<>>, 0)
       /\ ops = <<>>

Init ==
    \E ex \in SearchExamples, rp \in SearchReplacements, tg \in SearchTargets :
        Start(ex, rp, tg)

InitMatch ==
    \E ex \in CompileExamples, rp \in CompileReplacements, tg \in MatchTargets :
        Start(ex, rp, tg)

\* pattern = compile(example)
Compile ==
    /\ pat.st = "none"
    /\ \E r \in {compile(caller.example, heap)} :
          /\ heap' = r.h
          /\ pat' = [st |-> r.st, root |-> r.root, snap |-> r.h]
          /\ last' = Did("compile", "", r.st, <<>>, r.root, <<>>, <<>>, caller.example)
    /\ UNCHANGED <<inp, caller, rep, held, gen, ops>>

\* replace = repl(replacement)
Repl ==
    /\ rep.st = "none"
    /\ \E r \in {repl(caller.replacement, heap)} :
          /\ heap' = r.h
          /\ rep' = [st |-> r.st, root |-> r.root, snap |-> r.h]
          /\ last' = Did("repl", "", r.st, <<>>, r.root, <<>>, <<>>, caller.replacement)
    /\ UNCHANGED <<inp, caller, pat, held, gen, ops>>

\* m = pattern.fullmatch(text)
Fullmatch ==
    /\ pat.st = "ok"
    /\ \E r \in {fullmatch(pat.root, caller.text, heap)} :
          /\ last' = Did("fullmatch", "", r.st, r.m, 0, <<>>, <<>>, caller.text)
          /\ held' = IF r.st = "match" THEN held \cup {r.m} ELSE held
    /\ UNCHANGED <<heap, inp, caller, pat, rep, gen, ops>>

\* it = pattern.finditer(text): nothing runs before the first next(it)
Finditer ==
    /\ pat.st = "ok"
    /\ gen.started < MaxGens
    /\ gen' = [NoGen EXCEPT !.st = "active", !.stack = <<Frame(caller.text)>>,
                            !.root = caller.text, !.snap = heap,
                            !.started = gen.started + 1]
    /\ UNCHANGED <<heap, inp, caller, pat, rep, held, last, ops>>

\* m = next(it)
Pull ==
    /\ gen.st = "active"
    /\ \E r \in {finditer_next(gen.stack, pat.root, heap)} :
          /\ gen' = IF r.st = "yield"
                    THEN [gen EXCEPT !.stack = r.stack,
                                     !.yields = Append(gen.yields, r.m),
                                     !.ynodes = Append(gen.ynodes, r.n)]
                    ELSE [gen EXCEPT !.stack = <<>>,
                                     !.st = IF r.st = "StopIteration" THEN "done" ELSE r.st]
          /\ held' = IF r.st = "yield" THEN held \cup {r.m} ELSE held
    /\ UNCHANGED <<heap, inp, caller, pat, rep, last, ops>>

\* text = pattern.sub(replace, text) with the three kinds of replace
Sub ==
    /\ pat.st = "ok"
    /\ Len(ops) < MaxOps
    /\ \E kind \in {"ast", "Repl", "callable"}, lit \in Literals :
        /\ kind = "Repl" => rep.st = "ok"
        /\ \E l \in {IF kind = "ast" THEN parse(lit, heap) ELSE [h |-> heap, ref |-> 0]} :
           \E replace \in {[kind |-> kind, ref |-> IF kind = "Repl" THEN rep.root ELSE l.ref]} :
           \E r \in {sub(replace, pat.root, caller.text, l.h, <<>>)} :
              /\ heap' = r.h
              /\ caller' = [caller EXCEPT !.text = r.ref]
              /\ last' = Did("sub", kind, r.st, <<>>, r.ref, r.calls, l.h, caller.text)
              /\ ops' = Append(ops, [op |-> "sub", st |-> r.st, m |-> <<>>])
    /\ gen' = Suspended(gen)
    /\ UNCHANGED <<inp, pat, rep, held>>

\* tree = m.expand(replace) for a Match the caller holds
Expand ==
    /\ rep.st = "ok"
    /\ Len(ops) < MaxOps
    /\ \E m \in held :
        \E r \in {expand(m, rep.root, heap)} :
           /\ heap' = r.h
           /\ last' = Did("expand", "", r.st, m, r.v.ref, <<>>, heap, 0)
           /\ ops' = Append(ops, [op |-> "expand", st |-> r.st, m |-> m])
    /\ gen' = Suspended(gen)
    /\ UNCHANGED <<inp, caller, pat, rep, held>>

Next == Compile \/ Repl \/ Fullmatch \/ Finditer \/ Pull \/ Sub \/ Expand

\* A session of searching and rewriting
Spec == Init /\ [][Next]_vars

NextMatch == Compile \/ Repl \/ Fullmatch

\* A session of compiling and matching only, over the wider inputs
SpecMatch == InitMatch /\ [][NextMatch]_vars

-----------------------------------------------------------------------------
(* Vocabulary of the properties *)

\* the child nodes a field value holds: the node of a Child field, the
\* elements of a Sequence field, none for a leaf
ItemsOf(v) == IF v.k = "list" THEN v.list ELSE IF v.k = "node" THEN <<v.ref>> ELSE <<>>

RECURSIVE Reach(_, _)

\* the nodes of the tree below n, n included
Reach(h, n) ==
    {n} \cup UNION { UNION { Reach(h, ItemsOf(h[n].fields[i])[j]) :
                             j \in 1..Len(ItemsOf(h[n].fields[i])) } :
                     i \in 1..Len(h[n].fields) }

RECURSIVE PreOrder(_, _), PreOrderFields(_, _, _), PreOrderItems(_, _)

\* the nodes below n in depth-first pre-order: a node, then its fields in
\* declared order, the elements of a Sequence in list order
PreOrder(h, n) == <<n>> \o PreOrderFields(h, n, 1)

PreOrderFields(h, n, i) ==
    IF i > Len(h[n].fields) THEN <<>>
    ELSE PreOrderItems(h, ItemsOf(h[n].fields[i])) \o PreOrderFields(h, n, i + 1)

PreOrderItems(h, items) ==
    IF items = <<>> THEN <<>>
    ELSE PreOrder(h, Head(items)) \o PreOrderItems(h, Tail(items))

\* fullmatch succeeds at node n of heap h
MatchesAt(h, n) == fullmatch(pat.root, n, h).st = "match"

\* the matching nodes below root that have no matching proper ancestor
Outermost(h, root) ==
    { n \in Reach(h, root) :
        /\ MatchesAt(h, n)
        /\ \A a \in Reach(h, root) : (a # n /\ n \in Reach(h, a)) => ~MatchesAt(h, a) }

\* every node of the tree below root is in h2 what it was in h1
SameTree(h1, h2, root) == \A r \in Reach(h1, root) : h2[r] = h1[r]

IsPrefix(s, t) == Len(s) <= Len(t) /\ SubSeq(t, 1, Len(s)) = s

\* _name, __name as the compiler reads identifiers
IsSeqName(t) == t.tag = "Name" /\ startswith(t.s, <<"_", "_">>)

IsBlankName(t) ==
    /\ t.tag = "Name" /\ startswith(t.s, <<"_">>)
    /\ ~startswith(t.s, <<"_", "_">>) /\ ~startswith(t.s, <<"_", "v", "_">>)

\* an element of a Sequence field that is a placeholder: the name itself, or
\* the expression statement holding it
IsSeqElement(t) == IsSeqName(t) \/ (t.tag = "Expr" /\ IsSeqName(t.kids[1]))

IsBlankElement(t) == IsBlankName(t) \/ (t.tag = "Expr" /\ IsBlankName(t.kids[1]))

ElementName(t) == IF t.tag = "Expr" THEN t.kids[1].s ELSE t.s

\* the elements of the term's Sequence field
SeqField(t) ==
    IF t.tag = "Call" THEN Tail(t.kids) ELSE IF t.tag = "Module" THEN t.kids ELSE <<>>

RECURSIVE HasMixedSequence(_)

\* some Sequence field holds two or more elements, one of them a __name
HasMixedSequence(t) ==
    \/ Len(SeqField(t)) >= 2 /\ \E j \in 1..Len(SeqField(t)) : IsSeqElement(SeqField(t)[j])
    \/ \E j \in 1..Len(t.kids) : HasMixedSequence(t.kids[j])

\* a Call of a plain name, or a Module: one Sequence field and nothing else
\* to match
PlainHead(t) ==
    \/ t.tag = "Module"
    \/ t.tag = "Call" /\ t.kids[1].tag = "Name" /\ ~startswith(t.kids[1].s, <<"_">>)

SameHead(ex, tg) == tg.tag = ex.tag /\ (ex.tag = "Call" => tg.kids[1] = ex.kids[1])

\* the value of the node's Sequence field (the last field of Call and Module)
SeqValue(h, n) == getattr(h, n, NumFields(h, n))

-----------------------------------------------------------------------------
(* Properties *)

\* C1: for a pattern using one Blank name at both operands, fullmatch on a
\* binary operation succeeds exactly when the two operand subtrees are
\* structurally equal, two distinct node objects included.
C1_SameNameStructural ==
    (/\ last.op = "fullmatch"
     /\ inp.ex.tag = "BinOp" /\ IsBlankName(inp.ex.kids[1]) /\ inp.ex.kids[2] = inp.ex.kids[1]
     /\ inp.tg.tag = "BinOp")
    => ((last.st = "match") <=> (inp.tg.kids[1] = inp.tg.kids[2]))

\* C2: after sub, every node at which fullmatch succeeded and that had no
\* matching proper ancestor is replaced: it is no longer in the result (a
\* literal or Repl replacement), or the callback was invoked for it.
C2_SubReplacesAll ==
    (last.op = "sub" /\ last.st = "ok")
    => \A n \in Outermost(last.pre, last.text) :
          IF last.kind = "callable"
          THEN \E j \in 1..Len(last.calls) : last.calls[j].n = n
          ELSE n \notin Reach(heap, last.ref)

\* the target of the traversal is still what it was when finditer was called
GenIntact == gen.st # "none" /\ SameTree(gen.snap, heap, gen.root)

\* C3: a finditer traversal of an unchanged target, run to exhaustion, has
\* yielded once at every node where fullmatch succeeds, in depth-first
\* pre-order, each time that node's Matching; matches nested in a match
\* are among them.
C3_FinditerPreOrder ==
    (gen.st = "done" /\ GenIntact)
    => LET Hit(n) == MatchesAt(gen.snap, n)
       IN /\ gen.ynodes = SelectSeq(PreOrder(gen.snap, gen.root), Hit)
          /\ \A j \in 1..Len(gen.ynodes) :
                gen.yields[j] = fullmatch(pat.root, gen.ynodes[j], gen.snap).m

\* a finished traversal that yielded a match nested in a match
C3_Witness ==
    /\ gen.st = "done" /\ GenIntact
    /\ \E i, j \in 1..Len(gen.ynodes) :
          i < j /\ gen.ynodes[j] \in Reach(gen.snap, gen.ynodes[i])

\* C4: when sub matches at the node it is given, it returns the replacement
\* (the literal, the expansion of the Repl, the callback's return value for
\* that node and its Match) and changes nothing else; no node at or below a
\* match is rewritten, and the callback is invoked at most once per node and
\* only for nodes with no matching proper ancestor.
C4_SubStopsAtMatch ==
    (last.op = "sub" /\ last.st = "ok")
    => LET pre == last.pre
           top == fullmatch(pat.root, last.text, pre)
       IN /\ top.st = "match" =>
                CASE last.kind = "ast" -> last.ref = Len(pre) /\ heap = pre
                  [] last.kind = "Repl" ->
                        LET e == expand(top.m, rep.root, pre)
                        IN last.ref = e.v.ref /\ heap = e.h
                  [] OTHER ->
                        LET c == callback(last.text, top.m, pre)
                        IN /\ last.ref = c.ref /\ heap = c.h
                           /\ last.calls = <<[n |-> last.text, m |-> top.m]>>
          /\ \A n \in Reach(pre, last.text) : MatchesAt(pre, n) => SameTree(pre, heap, n)
          /\ \A j \in 1..Len(last.calls) :
                /\ last.calls[j].n \in Outermost(pre, last.text)
                /\ \A k \in 1..Len(last.calls) : last.calls[k].n = last.calls[j].n => k = j

\* sub with a callback on a match that holds another match inside it
C4_Witness ==
    /\ last.op = "sub" /\ last.st = "ok" /\ last.kind = "callable"
    /\ MatchesAt(last.pre, last.text)
    /\ \E n \in Reach(last.pre, last.text) : n # last.text /\ MatchesAt(last.pre, n)
    /\ Len(last.calls) = 1

\* C5: compile of an example with a Sequence field of two or more elements,
\* one of them a __name, raises NotImplementedError, and the caller's example
\* tree is what it was.
C5_MixedSequenceRejected ==
    (pat.st # "none" /\ HasMixedSequence(inp.ex))
    => /\ pat.st = "NotImplementedError"
       /\ unparse(heap, caller.example) = inp.ex

C5_Witness == pat.st = "NotImplementedError" /\ HasMixedSequence(inp.ex)

\* C6: repl accepts a replacement whose Sequence field holds __names together
\* with other elements (to splice the bound lists into that field).
C6_ReplAcceptsMixedSequence ==
    (rep.st # "none" /\ HasMixedSequence(inp.rp)) => rep.st = "ok"

\* C7: a pattern whose Sequence field is one __name matches a target of the
\* same head with a field of any length, binding the name to that field's
\* full list; one whose Sequence field is one _name matches exactly the
\* targets whose field has one element.
C7_SequenceCapture ==
    (/\ last.op = "fullmatch"
     /\ PlainHead(inp.ex) /\ Len(SeqField(inp.ex)) = 1 /\ SameHead(inp.ex, inp.tg))
    => LET e == SeqField(inp.ex)[1]
           field == SeqValue(heap, last.text)
       IN /\ IsSeqElement(e) =>
                /\ last.st = "match"
                /\ last.m = <<Item(slice_from(ElementName(e), 2), field)>>
                /\ field.k = "list"
                /\ unparse_list(heap, field.list) = SeqField(inp.tg)
          /\ IsBlankElement(e) =>
                /\ last.st \in {"match", "None"}
                /\ (last.st = "match") <=> (Len(SeqField(inp.tg)) = 1)
                /\ last.st = "match" =>
                      last.m = <<Item(slice_from(ElementName(e), 1), NodeV(field.list[1]))>>

\* a __name pattern matched against an empty Sequence field
C7_Witness ==
    /\ last.op = "fullmatch" /\ last.st = "match"
    /\ PlainHead(inp.ex) /\ Len(SeqField(inp.ex)) = 1 /\ IsSeqElement(SeqField(inp.ex)[1])
    /\ SeqField(inp.tg) = <<>>

\* the heap h with the tree below root put back to what it was in snap
Pristine(h, snap, root) ==
    [r \in 1..Len(h) |-> IF r \in Reach(snap, root) THEN snap[r] ELSE h[r]]

\* C8: whatever calls were made, the trees held by the Pattern and the Repl
\* are what compile and repl made them, and the caller's example trees are
\* what the caller parsed; so an expansion is what expanding the Repl as
\* first made gives.
C8_PatternsUnchanged ==
    /\ pat.st = "ok" => SameTree(pat.snap, heap, pat.root)
    /\ rep.st = "ok" => SameTree(rep.snap, heap, rep.root)
    /\ unparse(heap, caller.example) = inp.ex
    /\ unparse(heap, caller.replacement) = inp.rp
    /\ (last.op = "expand" /\ last.st = "ok") =>
          LET e == expand(last.m, rep.root, Pristine(last.pre, rep.snap, rep.root))
          IN e.st = "ok" /\ unparse(heap, last.ref) = unparse(e.h, e.v.ref)

\* two expansions of the one Repl with different bindings
C8_Witness ==
    /\ Len(ops) >= 2
    /\ ops[1].op = "expand" /\ ops[1].st = "ok"
    /\ ops[2].op = "expand" /\ ops[2].st = "ok"
    /\ ops[1].m # ops[2].m

\* C9 as stated: whatever the caller runs between pulls, sub on the same
\* target included, the traversal yields what an uninterrupted traversal of
\* the target as it was at the finditer call yields.
C9_InterleavingAlwaysSafe ==
    gen.st = "done" => gen.yields = finditer(pat.root, gen.root, gen.snap).ms

\* C9, amended: as long as no call made between pulls has rewritten a node
\* of the target, the matches yielded so far are the first ones of the
\* uninterrupted traversal, and all of them once the generator is exhausted.
C9_InterleavingSafeIfIntact ==
    (gen.st \in {"active", "done"} /\ GenIntact)
    => LET all == finditer(pat.root, gen.root, gen.snap).ms
       IN /\ IsPrefix(gen.yields, all)
          /\ gen.st = "done" => gen.yields = all

\* a traversal run to its end with other calls between its pulls
C9_Witness ==
    /\ gen.st = "done" /\ GenIntact /\ gen.interleaved
    /\ Len(gen.yields) >= 2

\* C10: a Name at the root of the example is never made a placeholder: the
\* pattern is that identifier, it matches only a target that is the same
\* identifier, and every match has an empty binding table.
C10_RootNameLiteral ==
    inp.ex.tag = "Name"
    => /\ pat.st # "none" =>
             /\ pat.st = "ok"
             /\ heap[pat.root] = Obj("Name", <<LeafV(inp.ex.s)>>)
       /\ last.op = "fullmatch" =>
             /\ last.st \in {"match", "None"}
             /\ (last.st = "match") <=> (inp.tg = inp.ex)
             /\ last.m = <<>>

\* the pattern compiled from the bare expression _a matching the name _a
C10_Witness ==
    /\ IsBlankName(inp.ex) /\ last.op = "fullmatch" /\ last.st = "match"

=============================================================================
